---- MODULE Spec2Model ----
(***************************************************************************)
(* The simulated TCP listener of turmoil (src/net/tcp/listener.rs): bind,  *)
(* accept, local_addr and drop, run against the World's per-host TCP state *)
(* (bind table, SYN queues, stream table) and the listener's tokio Notify. *)
(*                                                                         *)
(* The simulation is single threaded: one task is polled at a time and a   *)
(* poll runs until the task returns or suspends.  `running` holds the      *)
(* accept call whose poll is in progress, and every other operation waits  *)
(* for it to be NoCall.                                                    *)
(***************************************************************************)
EXTENDS Integers, Sequences, FiniteSets, TLC

\* ---------------------------------------------------------------- bounds
NumHosts == 2
MaxPort == 1
MaxListeners == 2
MaxAttempts == 3
MaxCalls == 2
MaxTicks == 1

\* ------------------------------------------------------------- addresses
\* A socket address is <<ip, port>>.  A host's ip is its number; 0 is the
\* unspecified ip (0.0.0.0).
Unspecified == 0
EphemeralBase == 10
NoCall == 0
NoEntry == 0
NoAttempt == 0

Hosts == 1..NumHosts
Ports == 1..MaxPort
Addrs == Hosts \X Ports
\* What the dns can resolve a bind address to; also the key space of the
\* host tables.
ResolvedAddrs == ({Unspecified} \cup Hosts) \X Ports

VARIABLES
    worldActive,  \* a World is set as the current World
    now,          \* elapsed simulated ticks
    binds,        \* binds[h][addr]: the Notify bound to addr on h, or NoEntry
    syns,         \* syns[h][addr]: FIFO of pending SYN attempts for addr on h
    streams,      \* streams[h]: the SocketPairs <<local, peer>> registered on h
    listeners,    \* the TcpListener values created so far, by Notify id
    notify,       \* notify[n]: the Notify's stored permit and waiter list
    attempts,     \* the SYN attempts created so far: origin, destination, ack
    calls,        \* the accept() calls made so far
    running,      \* the accept call being polled, or NoCall
    accepted,     \* the attempts returned by accept, in order of return
    last,         \* the outcome of the last bind or drop
    config,       \* the Config made so far, if any (an Option: {} or {c})
    link,         \* a Link and its two optional facets
    out           \* the outcome of the last Link accessor call

listenerVars == <<worldActive, now, binds, syns, streams, listeners, notify,
                  attempts, calls, running, accepted, last>>

cfgVars == <<config, link, out>>

vars == <<listenerVars, cfgVars>>

hostState == <<binds, syns, streams>>

\* ------------------------------------------------------------- config.rs
\* An Option<T> is the set {} (None) or {v} (Some(v)).  A Duration is its
\* length in milliseconds; an f64 parameter is its value in whole units.
FromSecs(secs) == secs * 1000
FromMillis(millis) == millis

\* The values a test may put into the facets.
Millis == {0, 1, 100}
ExpRates == {1, 5}
LossRates == {0, 1}

Latencies ==
    [min_message_latency : Millis, max_message_latency : Millis,
     latency_distribution : ExpRates]

MessageLosses == [fail_rate : LossRates, repair_rate : LossRates]

\* Faulty variant: the duration is built with from_millis.
ConfigDefaultMillis == [duration |-> FromMillis(10), tick |-> FromMillis(1)]

\* Default for Config.  The epoch (SystemTime::now()) is left out.
ConfigDefault == [duration |-> FromSecs(10), tick |-> FromMillis(1)]

\* Default for Latency.
LatencyDefault ==
    [min_message_latency |-> FromMillis(0),
     max_message_latency |-> FromMillis(100),
     latency_distribution |-> 5]

\* Default for MessageLoss.
MessageLossDefault == [fail_rate |-> 0, repair_rate |-> 1]

\* #[derive(Default)] for Link: both facets None.
LinkDefault == [latency |-> {}, message_loss |-> {}]

\* Option::expect: panics on None, gives the value otherwise.
Expect(opt) ==
    IF opt = {} THEN [res |-> "panic", val |-> {}] ELSE [res |-> "ok", val |-> opt]

\* Faulty variant: a missing facet is replaced by its default.
LinkLatencyOrDefault(lk) ==
    IF lk.latency = {} THEN [res |-> "ok", val |-> {LatencyDefault}]
    ELSE [res |-> "ok", val |-> lk.latency]

\* Link::latency and Link::latency_mut
LinkLatency(lk) == Expect(lk.latency)
LinkLatencyMut(lk) == Expect(lk.latency)

\* Link::message_loss and Link::message_loss_mut
LinkMessageLoss(lk) == Expect(lk.message_loss)
LinkMessageLossMut(lk) == Expect(lk.message_loss)

Outcome(op, r) == [op |-> op, res |-> r.res, val |-> r.val]

\* Config::default()
NewConfig ==
    /\ config' = {ConfigDefault}
    /\ UNCHANGED <<link, out>>
    /\ UNCHANGED listenerVars

\* Link::default()
NewLink ==
    /\ link' = LinkDefault
    /\ UNCHANGED <<config, out>>
    /\ UNCHANGED listenerVars

\* `link.latency = Some(v)`, with v given or Latency::default()
SetLatency(v) ==
    /\ link' = [link EXCEPT !.latency = {v}]
    /\ UNCHANGED <<config, out>>
    /\ UNCHANGED listenerVars

\* `link.message_loss = Some(v)`, with v given or MessageLoss::default()
SetMessageLoss(v) ==
    /\ link' = [link EXCEPT !.message_loss = {v}]
    /\ UNCHANGED <<config, out>>
    /\ UNCHANGED listenerVars

\* link.latency()
GetLatency ==
    /\ out' = Outcome("latency", LinkLatency(link))
    /\ UNCHANGED <<config, link>>
    /\ UNCHANGED listenerVars

\* `*link.latency_mut() = v`: the facet is overwritten through the reference,
\* unless the accessor panicked.
GetLatencyMut(v) ==
    /\ out' = Outcome("latency_mut", LinkLatencyMut(link))
    /\ link' = IF LinkLatencyMut(link).res = "ok"
               THEN [link EXCEPT !.latency = {v}] ELSE link
    /\ UNCHANGED config
    /\ UNCHANGED listenerVars

\* link.message_loss()
GetMessageLoss ==
    /\ out' = Outcome("message_loss", LinkMessageLoss(link))
    /\ UNCHANGED <<config, link>>
    /\ UNCHANGED listenerVars

\* `*link.message_loss_mut() = v`
GetMessageLossMut(v) ==
    /\ out' = Outcome("message_loss_mut", LinkMessageLossMut(link))
    /\ link' = IF LinkMessageLossMut(link).res = "ok"
               THEN [link EXCEPT !.message_loss = {v}] ELSE link
    /\ UNCHANGED config
    /\ UNCHANGED listenerVars

ConfigNext ==
    \/ NewConfig
    \/ NewLink
    \/ \E v \in Latencies \cup {LatencyDefault} : SetLatency(v)
    \/ \E v \in MessageLosses \cup {MessageLossDefault} : SetMessageLoss(v)
    \/ GetLatency
    \/ \E v \in Latencies : GetLatencyMut(v)
    \/ GetMessageLoss
    \/ \E v \in MessageLosses : GetMessageLossMut(v)

Init ==
    /\ worldActive = TRUE
    /\ now = 0
    /\ binds = [h \in Hosts |-> [a \in ResolvedAddrs |-> NoEntry]]
    /\ syns = [h \in Hosts |-> [a \in ResolvedAddrs |-> <<>>]]
    /\ streams = [h \in Hosts |-> {}]
    /\ listeners = <<>>
    /\ notify = <<>>
    /\ attempts = <<>>
    /\ calls = <<>>
    /\ running = NoCall
    /\ accepted = <<>>
    /\ last = [op |-> "none", res |-> "none"]
    /\ config = {}
    /\ link = LinkDefault
    /\ out = [op |-> "none", res |-> "none", val |-> {}]

\* ------------------------------------------------- host.tcp (bind table)
\* Tcp::bind refuses an address that already has an entry.
TcpBindFails(h, addr) == binds[h][addr] # NoEntry

\* Tcp::bind on a free address: the entry maps addr to a fresh Notify n.
TcpBind(h, addr, n) == [binds EXCEPT ![h][addr] = n]

\* Tcp::unbind removes the entry for addr on h.
TcpUnbind(h, addr) == [binds EXCEPT ![h][addr] = NoEntry]

\* Faulty variant: the newest pending attempt is taken.
TcpAcceptSynNewest(h, addr) == syns[h][addr][Len(syns[h][addr])]

\* Tcp::accept pops the oldest pending attempt for addr, if any.
TcpAcceptIsNone(h, addr) == syns[h][addr] = <<>>
TcpAcceptSyn(h, addr) == Head(syns[h][addr])
TcpAcceptRest(h, addr) == [syns EXCEPT ![h][addr] = Tail(syns[h][addr])]

\* Tcp::new_stream registers a data channel for the pair.
TcpNewStream(h, pair) == [streams EXCEPT ![h] = streams[h] \cup {pair}]

\* ---------------------------------------------------------- tokio Notify
\* Notify::notify_one: wake the oldest waiter, or store the (single) permit.
NotifyOneNotify(n) ==
    IF notify[n].waiters = <<>>
    THEN [notify EXCEPT ![n].permit = TRUE]
    ELSE [notify EXCEPT ![n].waiters = Tail(notify[n].waiters)]

NotifyOneCalls(n) ==
    IF notify[n].waiters = <<>>
    THEN calls
    ELSE [calls EXCEPT ![Head(notify[n].waiters)].pc = "check",
                       ![Head(notify[n].waiters)].woken = "yes"]

\* ------------------------------------------------------ TcpListener::bind
\* Faulty variant: the check for a specified ip is missing.
BindPanicsNever(addr) == FALSE

\* `if !addr.ip().is_unspecified() { panic!(..) }`
BindPanics(addr) == addr[1] # Unspecified

\* Faulty variant: the unspecified ip is not rewritten.
BindSetIpSkipped(h, addr) == addr

\* `addr.set_ip(host.addr)`
BindSetIp(h, addr) == <<h, addr[2]>>

\* TcpListener::new(local_addr, notify)
NewListener(addr) == [local_addr |-> addr, alive |-> TRUE]

\* Faulty variant: the io::Result of Tcp::bind is unwrapped instead of returned.
BindResultUnwrap(res) ==
    [op |-> "bind", res |-> IF res = "err" THEN "panic" ELSE res]

\* The io::Result of bind, or the panic that ends the call.
BindResult(res) == [op |-> "bind", res |-> res]

\* bind(addr) called on host h; addr is the address as resolved by the dns.
Bind(h, addr) ==
    /\ worldActive
    /\ running = NoCall
    /\ Len(listeners) < MaxListeners
    /\ IF BindPanics(addr)
       THEN /\ last' = BindResult("panic")
            /\ UNCHANGED <<binds, listeners, notify>>
       ELSE LET local == BindSetIp(h, addr)
                n == Len(listeners) + 1
            IN  IF TcpBindFails(h, local)
                THEN /\ last' = BindResult("err")
                     /\ UNCHANGED <<binds, listeners, notify>>
                ELSE /\ binds' = TcpBind(h, local, n)
                     /\ listeners' = Append(listeners, NewListener(local))
                     /\ notify' = Append(notify, [permit |-> FALSE, waiters |-> <<>>])
                     /\ last' = BindResult("ok")
    /\ UNCHANGED cfgVars
    /\ UNCHANGED <<worldActive, now, syns, streams, attempts, calls, running, accepted>>

\* TcpListener::local_addr
LocalAddr(l) == listeners[l].local_addr

\* ---------------------------------------------------- TcpListener::accept
\* A call records, besides its place in the loop (pc) and its result, whether
\* it has consumed a notification since it last looked at the queue (woken:
\* "fresh" before the first look, then "no" or "yes") and whether its last
\* look ended in a failed acknowledgment (ackFailed).
Pending(c) == c \in DOMAIN calls /\ calls[c].pc # "done"

\* accept() is called on listener l by a task of host h.
AcceptCall(l, h) ==
    /\ worldActive
    /\ running = NoCall
    /\ l \in DOMAIN listeners
    /\ listeners[l].alive
    /\ Len(calls) < MaxCalls
    /\ calls' = Append(calls, [listener |-> l, host |-> h, pc |-> "check",
                               ret |-> NoAttempt, res |-> "none",
                               remote |-> <<0, 0>>,
                               woken |-> "fresh", ackFailed |-> FALSE])
    /\ UNCHANGED cfgVars
    /\ UNCHANGED <<worldActive, now, binds, syns, streams, listeners, notify,
                   attempts, running, accepted, last>>

\* `syn.ack.send(())`: the one-shot channel after the send.  The send reaches
\* the initiator only while it still holds the receiving end.
AckSend(a) == IF attempts[a].ack = "open" THEN "sent" ELSE attempts[a].ack

\* Faulty variant: the failed send is ignored.
AckIsErrIgnored(a) == FALSE

\* `ack.is_err()`: the send failed, the initiator had dropped the receiver.
AckIsErr(a) == attempts[a].ack # "open"

\* Faulty variant: the pair is built with its two ends exchanged.
NewPairExchanged(l, a) == <<attempts[a].origin, LocalAddr(l)>>

\* `SocketPair::new(self.local_addr, origin)`
NewPair(l, a) == <<LocalAddr(l), attempts[a].origin>>

\* Faulty variant: the stream is registered before the ack is looked at.
AcceptStreamsEager(h, l, a) == TcpNewStream(h, NewPair(l, a))

\* The stream table after the closure popped attempt a: `return None` on a
\* failed ack comes before `host.tcp.new_stream(pair)`.
AcceptStreams(h, l, a) ==
    IF AckIsErr(a) THEN streams ELSE TcpNewStream(h, NewPair(l, a))

\* `return Ok(accepted)` with accepted = (TcpStream::new(pair, rx), origin).
AcceptReturn(c, a) ==
    [calls EXCEPT ![c].pc = "done", ![c].ret = a, ![c].res = "ok",
                  ![c].remote = attempts[a].origin, ![c].woken = "no"]

\* Faulty variant: a None from the closure ends the call with an error.
AcceptRetryAsErr(c) == [calls EXCEPT ![c].pc = "done", ![c].res = "err"]

\* Faulty variant: a None from the closure goes straight back to the top of
\* the loop.
AcceptRetryBusy(c) == [calls EXCEPT ![c].pc = "check", ![c].woken = "no"]

\* The closure gave None (nothing queued, or the ack failed): the call goes on
\* to `self.notify.notified().await`.
AcceptRetry(c) == [calls EXCEPT ![c].pc = "await", ![c].woken = "no"]

\* The `World::current(|world| ..)` closure of one loop iteration, followed by
\* the `if let Some(accepted) = maybe_accept { return Ok(accepted) }`.
AcceptClosure(c) ==
    /\ worldActive
    /\ c \in DOMAIN calls
    /\ calls[c].pc = "check"
    /\ running \in {NoCall, c}
    /\ LET h == calls[c].host
           l == calls[c].listener
       IN  IF TcpAcceptIsNone(h, LocalAddr(l))
           THEN /\ calls' = AcceptRetry(c)
                /\ running' = c
                /\ UNCHANGED <<syns, attempts, streams, accepted>>
           ELSE LET a == TcpAcceptSyn(h, LocalAddr(l))
                IN  /\ syns' = TcpAcceptRest(h, LocalAddr(l))
                    /\ attempts' = [attempts EXCEPT ![a].ack = AckSend(a)]
                    /\ streams' = AcceptStreams(h, l, a)
                    /\ IF AckIsErr(a)
                       THEN /\ calls' = [AcceptRetry(c) EXCEPT ![c].ackFailed = TRUE]
                            /\ running' = c
                            /\ UNCHANGED accepted
                       ELSE /\ calls' = AcceptReturn(c, a)
                            /\ accepted' = Append(accepted, a)
                            /\ running' = NoCall
    /\ UNCHANGED cfgVars
    /\ UNCHANGED <<worldActive, now, binds, listeners, notify, last>>

\* Faulty variant: the task yields instead of waiting for a notification.
AcceptAwaitYields(c) ==
    /\ worldActive
    /\ c \in DOMAIN calls
    /\ calls[c].pc = "await"
    /\ running = c
    /\ calls' = [calls EXCEPT ![c].pc = "check", ![c].ackFailed = FALSE]
    /\ running' = NoCall
    /\ UNCHANGED cfgVars
    /\ UNCHANGED <<worldActive, now, binds, syns, streams, listeners, notify,
                   attempts, accepted, last>>

\* `self.notify.notified().await`: a stored permit is consumed and the loop
\* goes on in the same poll; otherwise the call joins the waiters and suspends.
AcceptAwait(c) ==
    /\ worldActive
    /\ c \in DOMAIN calls
    /\ calls[c].pc = "await"
    /\ running = c
    /\ LET n == calls[c].listener
       IN  IF notify[n].permit
           THEN /\ notify' = [notify EXCEPT ![n].permit = FALSE]
                /\ calls' = [calls EXCEPT ![c].pc = "check", ![c].woken = "yes",
                                          ![c].ackFailed = FALSE]
                /\ running' = c
           ELSE /\ notify' = [notify EXCEPT ![n].waiters = Append(@, c)]
                /\ calls' = [calls EXCEPT ![c].pc = "waiting", ![c].ackFailed = FALSE]
                /\ running' = NoCall
    /\ UNCHANGED cfgVars
    /\ UNCHANGED <<worldActive, now, binds, syns, streams, listeners, attempts,
                   accepted, last>>

\* ------------------------------------------------- Drop for TcpListener
\* Faulty variant: the drop clears the current host's whole bind table.
DropBindsAll(h, l) ==
    IF worldActive
    THEN [binds EXCEPT ![h] = [x \in ResolvedAddrs |-> NoEntry]]
    ELSE binds

\* Faulty variant: the unbind runs whether or not a World is set.
DropBindsUnchecked(h, l) == TcpUnbind(h, LocalAddr(l))

\* `World::current_if_set(|world| world.current_host_mut().tcp.unbind(..))`
DropBinds(h, l) ==
    IF worldActive THEN TcpUnbind(h, LocalAddr(l)) ELSE binds

\* current_if_set runs nothing when no World is set, where World::current
\* would panic.
DropOutcome == "ok"

\* The listener l is dropped while h is the current host.  A pending accept
\* borrows the listener, so none is pending.
Drop(l, h) ==
    /\ running = NoCall
    /\ l \in DOMAIN listeners
    /\ listeners[l].alive
    /\ \A c \in DOMAIN calls : calls[c].listener = l => calls[c].pc = "done"
    /\ binds' = DropBinds(h, l)
    /\ listeners' = [listeners EXCEPT ![l].alive = FALSE]
    /\ last' = [op |-> "drop", res |-> DropOutcome]
    /\ UNCHANGED cfgVars
    /\ UNCHANGED <<worldActive, now, syns, streams, notify, attempts, calls,
                   running, accepted>>

\* ------------------------------------------------------- the environment
\* A connect attempt from host src reaches host h for the bound address addr:
\* it is queued behind the pending ones and the listener's Notify is notified.
Enqueue(h, addr, src) ==
    /\ worldActive
    /\ running = NoCall
    /\ Len(attempts) < MaxAttempts
    /\ binds[h][addr] # NoEntry
    /\ LET a == Len(attempts) + 1
       IN  /\ attempts' = Append(attempts, [origin |-> <<src, EphemeralBase + a>>,
                                            host |-> h, dst |-> addr, ack |-> "open",
                                            notified |-> binds[h][addr]])
           /\ syns' = [syns EXCEPT ![h][addr] = Append(@, a)]
           /\ notify' = NotifyOneNotify(binds[h][addr])
           /\ calls' = NotifyOneCalls(binds[h][addr])
    /\ UNCHANGED cfgVars
    /\ UNCHANGED <<worldActive, now, binds, streams, listeners, running, accepted, last>>

\* The initiator of attempt a gives up: it drops the receiving end of the
\* one-shot acknowledgment channel.
Cancel(a) ==
    /\ worldActive
    /\ running = NoCall
    /\ a \in DOMAIN attempts
    /\ attempts[a].ack = "open"
    /\ attempts' = [attempts EXCEPT ![a].ack = "closed"]
    /\ UNCHANGED cfgVars
    /\ UNCHANGED <<worldActive, now, binds, syns, streams, listeners, notify, calls,
                   running, accepted, last>>

\* The scheduler advances simulated time between polls.
Tick ==
    /\ worldActive
    /\ running = NoCall
    /\ now < MaxTicks
    /\ now' = now + 1
    /\ UNCHANGED cfgVars
    /\ UNCHANGED <<worldActive, binds, syns, streams, listeners, notify, attempts,
                   calls, running, accepted, last>>

\* The World is torn down.
Teardown ==
    /\ worldActive
    /\ running = NoCall
    /\ worldActive' = FALSE
    /\ UNCHANGED cfgVars
    /\ UNCHANGED <<now, binds, syns, streams, listeners, notify, attempts, calls,
                   running, accepted, last>>

Next ==
    \/ \E h \in Hosts, addr \in ResolvedAddrs : Bind(h, addr)
    \/ \E l \in 1..MaxListeners, h \in Hosts : AcceptCall(l, h)
    \/ \E c \in 1..MaxCalls : AcceptClosure(c)
    \/ \E c \in 1..MaxCalls : AcceptAwait(c)
    \/ \E l \in 1..MaxListeners, h \in Hosts : Drop(l, h)
    \/ \E h \in Hosts, addr \in Addrs : \E src \in Hosts \ {h} : Enqueue(h, addr, src)
    \/ \E a \in 1..MaxAttempts : Cancel(a)
    \/ Tick
    \/ Teardown

Spec == Init /\ [][Next]_vars

\* The configuration values on their own: made, set and read by a test.
ConfigSpec == Init /\ [][ConfigNext]_vars

\* The scheduler keeps polling a runnable accept task.
FairSpec ==
    /\ Spec
    /\ \A c \in 1..MaxCalls : WF_vars(AcceptClosure(c)) /\ WF_vars(AcceptAwait(c))

\* ================================================================ claims
Range(f) == {f[i] : i \in DOMAIN f}
Done(c) == c \in DOMAIN calls /\ calls[c].pc = "done"
Returned(a) == \E c \in DOMAIN calls : Done(c) /\ calls[c].ret = a
Queued(h, addr, a) == a \in Range(syns[h][addr])

\* C1: every accept return carries one attempt whose acknowledgment send
\* succeeded, and no attempt is returned by two accept calls or twice: the
\* returns, in order, list each acknowledged attempt exactly once.
C1_AcceptExactlyOnce ==
    /\ \A c \in DOMAIN calls :
          Done(c) => /\ calls[c].ret \in DOMAIN attempts
                     /\ attempts[calls[c].ret].ack = "sent"
    /\ \A c, d \in DOMAIN calls :
          Done(c) /\ Done(d) /\ c # d => calls[c].ret # calls[d].ret
    /\ \A i, j \in DOMAIN accepted : i # j => accepted[i] # accepted[j]
    /\ Range(accepted) = {a \in DOMAIN attempts : attempts[a].ack = "sent"}
    /\ Range(accepted) = {calls[c].ret : c \in {d \in DOMAIN calls : Done(d)}}

\* Two accept calls on one listener have each returned an attempt, after an
\* attempt of a cancelled initiator was popped and discarded.
C1_Witness ==
    \E c, d \in DOMAIN calls :
        /\ c # d /\ Done(c) /\ Done(d)
        /\ calls[c].listener = calls[d].listener
        /\ \E a \in DOMAIN attempts :
              /\ attempts[a].ack = "closed"
              /\ attempts[a].dst = LocalAddr(calls[c].listener)
              /\ ~Queued(attempts[a].host, attempts[a].dst, a)

\* The accept closure of call c pops an attempt whose initiator has already
\* dropped the acknowledgment channel.
PopsCancelled(c) ==
    /\ AcceptClosure(c)
    /\ syns[calls[c].host][LocalAddr(calls[c].listener)] # <<>>
    /\ attempts[Head(syns[calls[c].host][LocalAddr(calls[c].listener)])].ack = "closed"

\* C2: an attempt whose acknowledgment channel was closed before accept pops
\* it is never returned, and the step that pops it leaves the stream table
\* (and the bind table) as it was.
C2_CancelledInvisible ==
    /\ [](\A a \in DOMAIN attempts : attempts[a].ack = "closed" => ~Returned(a))
    /\ [][\A c \in 1..MaxCalls :
            PopsCancelled(c) => /\ streams' = streams
                                /\ binds' = binds
                                /\ ~Done(c)']_vars

\* A cancelled attempt has been popped by an accept call that is still going.
C2_Witness ==
    \E a \in DOMAIN attempts, c \in DOMAIN calls :
        /\ attempts[a].ack = "closed"
        /\ ~Queued(attempts[a].host, attempts[a].dst, a)
        /\ calls[c].listener \in DOMAIN listeners
        /\ LocalAddr(calls[c].listener) = attempts[a].dst
        /\ calls[c].host = attempts[a].host
        /\ calls[c].pc = "await"

\* A still-live attempt a is queued for listener l's address on the host the
\* listener is bound on, every attempt queued there notified l's wake-handle
\* when it was queued, and an accept call made on that host is pending on l.
LiveQueuedWithPendingAccept(l, a) ==
    /\ worldActive
    /\ l \in DOMAIN listeners
    /\ a \in DOMAIN attempts
    /\ attempts[a].ack = "open"
    /\ attempts[a].dst = LocalAddr(l)
    /\ Queued(attempts[a].host, LocalAddr(l), a)
    /\ \A b \in Range(syns[attempts[a].host][LocalAddr(l)]) : attempts[b].notified = l
    /\ \E c \in DOMAIN calls :
          Pending(c) /\ calls[c].listener = l /\ calls[c].host = attempts[a].host

\* Every accept call ever made ran on the host its listener is bound on.
AllCallsLocal ==
    \A c \in DOMAIN calls : calls[c].host = LocalAddr(calls[c].listener)[1]

\* C3: whenever a still-live attempt is queued for a listener's address and
\* an accept call is pending on that listener, accept eventually returns a
\* live attempt: the attempt is acknowledged, or every pending call on the
\* listener has returned (or the initiator gives up, or the World ends).
C3_LiveAttemptAccepted ==
    \A l \in 1..MaxListeners, a \in 1..MaxAttempts :
        (LiveQueuedWithPendingAccept(l, a) /\ AllCallsLocal)
            ~> \/ ~worldActive
               \/ ~AllCallsLocal
               \/ (a \in DOMAIN attempts /\ attempts[a].ack # "open")
               \/ \A c \in DOMAIN calls : calls[c].listener = l => Done(c)

\* A bind on host h of the wildcard address with port p that finds the
\* resolved address <<h, p>> already in h's bind table.
BindsTaken(h, p) ==
    /\ Bind(h, <<Unspecified, p>>)
    /\ binds[h][<<h, p>>] # NoEntry

\* C4: no two live listeners hold the same address, and a bind to an address
\* that already has a bind-table entry on the host returns a recoverable
\* error, creates no listener and leaves the entry in place.
C4_AtMostOneBind ==
    /\ [](\A l, m \in DOMAIN listeners :
            /\ listeners[l].alive /\ listeners[m].alive
            /\ LocalAddr(l) = LocalAddr(m)
            => l = m)
    /\ [](\A l \in DOMAIN listeners :
            listeners[l].alive => binds[LocalAddr(l)[1]][LocalAddr(l)] = l)
    /\ [][\A h \in Hosts, p \in Ports :
            BindsTaken(h, p) => /\ last'.res = "err"
                                /\ listeners' = listeners
                                /\ binds' = binds]_vars

\* A second bind to a taken address has just returned the error, the first
\* listener still being alive.
C4_Witness ==
    /\ last = [op |-> "bind", res |-> "err"]
    /\ \E l \in DOMAIN listeners :
          listeners[l].alive /\ binds[LocalAddr(l)[1]][LocalAddr(l)] = l

\* C5: after a listener is dropped while the World is active, the bind table
\* of the listener's host has no entry for the listener's address (so the
\* next bind to that address on that host succeeds).
C5_DropFreesAddress ==
    [][\A l \in 1..MaxListeners, h \in Hosts :
          Drop(l, h) /\ worldActive
              => binds'[LocalAddr(l)[1]][LocalAddr(l)] = NoEntry]_vars

\* C6: a successful bind of the wildcard address with port p on host h adds
\* the one entry <<h, p>> to h's bind table and changes no other entry, the
\* listener it returns has local_addr <<h, p>> from then on, and the simulated
\* time does not move.
C6_BindWildcard ==
    /\ [][\A h \in Hosts, p \in Ports :
            Bind(h, <<Unspecified, p>>) /\ last'.res = "ok"
                => /\ Len(listeners') = Len(listeners) + 1
                   /\ listeners'[Len(listeners')].local_addr = <<h, p>>
                   /\ binds[h][<<h, p>>] = NoEntry
                   /\ binds'[h][<<h, p>>] = Len(listeners')
                   /\ \A g \in Hosts, x \in ResolvedAddrs :
                         <<g, x>> # <<h, <<h, p>>>> => binds'[g][x] = binds[g][x]
                   /\ now' = now]_vars
    /\ [][\A l \in DOMAIN listeners :
            listeners'[l].local_addr = listeners[l].local_addr]_vars

\* A wildcard bind has just succeeded after simulated time had advanced.
C6_Witness ==
    /\ last = [op |-> "bind", res |-> "ok"]
    /\ now > 0
    /\ \E l \in DOMAIN listeners : binds[LocalAddr(l)[1]][LocalAddr(l)] = l

\* C7: bind of a resolved address whose ip is specified panics, and the bind
\* table, the SYN queues and the stream table are left as they were.
C7_BindSpecifiedPanics ==
    [][\A h \in Hosts, addr \in ResolvedAddrs :
          Bind(h, addr) /\ addr[1] # Unspecified
              => /\ last'.res = "panic"
                 /\ hostState' = hostState
                 /\ listeners' = listeners]_vars

\* A bind of a specified address has just panicked on a host that has a
\* listener bound and an attempt queued.
C7_Witness ==
    /\ last = [op |-> "bind", res |-> "panic"]
    /\ \E h \in Hosts, x \in Addrs : binds[h][x] # NoEntry /\ syns[h][x] # <<>>

\* C8: dropping a listener when no World is active does not fail and changes
\* nothing but the dropped listener itself.
C8_DropWithoutWorld ==
    [][\A l \in 1..MaxListeners, h \in Hosts :
          Drop(l, h) /\ ~worldActive
              => /\ last'.res = "ok"
                 /\ hostState' = hostState
                 /\ UNCHANGED <<worldActive, now, notify, attempts, calls, running,
                                accepted>>]_vars

\* A listener has been dropped after the World was torn down; its bind-table
\* entry is still there.
C8_Witness ==
    /\ ~worldActive
    /\ last = [op |-> "drop", res |-> "ok"]
    /\ \E l \in DOMAIN listeners :
          ~listeners[l].alive /\ binds[LocalAddr(l)[1]][LocalAddr(l)] = l

\* C9: every return of accept is a success that carries a stream registered
\* for the pair (local, origin) and the origin as the remote address; a failed
\* acknowledgment never ends the call.
C9_AcceptNeverErrs ==
    \A c \in DOMAIN calls :
        /\ calls[c].res \in {"none", "ok"}
        /\ Done(c) =>
              /\ calls[c].res = "ok"
              /\ calls[c].ret \in DOMAIN attempts
              /\ calls[c].remote = attempts[calls[c].ret].origin
              /\ <<LocalAddr(calls[c].listener), calls[c].remote>>
                     \in streams[calls[c].host]
        /\ ~Done(c) => calls[c].res = "none"

\* An accept call has returned after discarding a cancelled attempt.
C9_Witness ==
    \E c \in DOMAIN calls, a \in DOMAIN attempts :
        /\ Done(c)
        /\ attempts[a].ack = "closed"
        /\ attempts[a].dst = LocalAddr(calls[c].listener)
        /\ attempts[a].host = calls[c].host
        /\ ~Queued(attempts[a].host, attempts[a].dst, a)
        /\ a < calls[c].ret

Index(a) == CHOOSE i \in DOMAIN accepted : accepted[i] = a
SameQueue(a, b) ==
    attempts[a].host = attempts[b].host /\ attempts[a].dst = attempts[b].dst

\* C10: of two attempts queued for the same address on a host, a before b,
\* both with their initiator still there when popped, a is returned by accept
\* before b; and the queue holds the attempts in the order they were queued.
C10_FifoAccept ==
    /\ \A a, b \in DOMAIN attempts :
          a < b /\ SameQueue(a, b) /\ Returned(b) /\ attempts[a].ack # "closed"
              => Returned(a) /\ Index(a) < Index(b)
    /\ \A h \in Hosts, x \in ResolvedAddrs :
          \A i, j \in DOMAIN syns[h][x] : i < j => syns[h][x][i] < syns[h][x][j]

\* Two attempts queued for one address have both been returned, in order.
C10_Witness ==
    \E a, b \in DOMAIN attempts :
        a < b /\ SameQueue(a, b) /\ Returned(a) /\ Returned(b)

\* C11 (two runs driven by the same events give the same accept results and
\* tables) compares two behaviours; it is not stated here.

\* C12: a successful accept removes the one entry at the head of the SYN
\* queue of the listener's address, adds the one stream-table entry keyed by
\* (listener's local address, attempt's origin), returns that origin as the
\* remote address, and leaves the bind table and every other queue and stream
\* table as they were.
C12_AcceptFrame ==
    [][\A c \in 1..MaxCalls :
          AcceptClosure(c) /\ Done(c)'
              => LET h == calls[c].host
                     addr == LocalAddr(calls[c].listener)
                     a == calls'[c].ret
                     pair == <<addr, attempts[a].origin>>
                 IN  /\ syns[h][addr] # <<>>
                     /\ a = Head(syns[h][addr])
                     /\ syns'[h][addr] = Tail(syns[h][addr])
                     /\ \A g \in Hosts, x \in ResolvedAddrs :
                           <<g, x>> # <<h, addr>> => syns'[g][x] = syns[g][x]
                     /\ pair \notin streams[h]
                     /\ streams'[h] = streams[h] \cup {pair}
                     /\ \A g \in Hosts \ {h} : streams'[g] = streams[g]
                     /\ calls'[c].remote = attempts[a].origin
                     /\ binds' = binds]_vars

\* An accept call has returned the oldest of two attempts queued for its
\* address; the other one is still queued.
C12_Witness ==
    \E c \in DOMAIN calls, b \in DOMAIN attempts :
        /\ Done(c)
        /\ streams[calls[c].host] # {}
        /\ Queued(calls[c].host, LocalAddr(calls[c].listener), b)
        /\ calls[c].ret < b

\* The outcome o of an accessor for a facet: a panic exactly when the facet
\* is not configured, the configured facet otherwise.
AccessorContract(o, facet) ==
    /\ o.res = "panic" <=> facet = {}
    /\ facet # {} => o.res = "ok" /\ o.val = facet

\* C13: latency, latency_mut, message_loss and message_loss_mut panic exactly
\* when the facet asked for was never configured and give the configured
\* facet otherwise; a default Link has neither facet configured.
C13_LinkAccessors ==
    /\ [][/\ GetLatency => AccessorContract(out', link.latency)
          /\ (\E v \in Latencies : GetLatencyMut(v))
                => AccessorContract(out', link.latency)
          /\ GetMessageLoss => AccessorContract(out', link.message_loss)
          /\ (\E v \in MessageLosses : GetMessageLossMut(v))
                => AccessorContract(out', link.message_loss)
          /\ NewLink => link'.latency = {} /\ link'.message_loss = {}]_vars
    /\ [](out.res \in {"none", "ok", "panic"})

\* message_loss() has just panicked on a Link whose latency is configured and
\* whose message loss is not.
C13_Witness ==
    /\ out.op = "message_loss"
    /\ out.res = "panic"
    /\ link.latency # {}
    /\ link.message_loss = {}

\* C14: a default Config has tick = 1 ms and duration = 10000 x tick; a
\* default Latency has bounds 0 and 100 ms (min <= max) and rate 5; a default
\* MessageLoss has fail_rate 0 and repair_rate 1.
C14_Defaults ==
    /\ \A c \in config : c.tick = 1 /\ c.duration = 10000 * c.tick
    /\ LatencyDefault.min_message_latency = 0
    /\ LatencyDefault.max_message_latency = 100
    /\ LatencyDefault.min_message_latency <= LatencyDefault.max_message_latency
    /\ LatencyDefault.latency_distribution = 5
    /\ MessageLossDefault.fail_rate = 0
    /\ MessageLossDefault.repair_rate = 1

\* A default Config has been made and the Link holds the two default facets.
C14_Witness ==
    /\ config # {}
    /\ link.latency = {LatencyDefault}
    /\ link.message_loss = {MessageLossDefault}

\* C15: after a failed acknowledgment send accept looks at the queue again
\* before it suspends; the wait that follows a failed acknowledgment never
\* suspends the call.
C15_NoSuspendAfterFailedAck ==
    [][\A c \in 1..MaxCalls :
          AcceptAwait(c) /\ calls[c].ackFailed => calls'[c].pc # "waiting"]_vars

\* C16: a live attempt queued for the listener's address with the wake-handle
\* notified is eventually returned by the pending accept, whenever the
\* notification arrived (unless its initiator gives up, the World ends, or no
\* accept call is left pending on the listener).
C16_NoLostWakeup ==
    \A l \in 1..MaxListeners, a \in 1..MaxAttempts :
        (LiveQueuedWithPendingAccept(l, a) /\ AllCallsLocal)
            ~> \/ ~worldActive
               \/ ~AllCallsLocal
               \/ (a \in DOMAIN attempts /\ Returned(a))
               \/ (a \in DOMAIN attempts /\ attempts[a].ack = "closed")
               \/ \A c \in DOMAIN calls : calls[c].listener = l => Done(c)

\* The queue that call c looks at: the one of its listener's address on the
\* host the call runs on.
CallQueue(c) == syns[calls[c].host][LocalAddr(calls[c].listener)]

\* C17: an accept call that was woken and finds the queue of its address
\* empty changes no host state, returns nothing and raises no error, and goes
\* on to wait on the wake-handle again, where it suspends unless another
\* notification is already stored.
C17_SpuriousWake ==
    /\ [][\A c \in 1..MaxCalls :
            AcceptClosure(c) /\ calls[c].woken = "yes" /\ CallQueue(c) = <<>>
                => /\ hostState' = hostState
                   /\ UNCHANGED <<listeners, notify, attempts, accepted, last>>
                   /\ calls'[c].pc = "await"
                   /\ calls'[c].res = "none"
                   /\ calls'[c].ret = NoAttempt]_vars
    /\ [][\A c \in 1..MaxCalls :
            AcceptAwait(c) /\ ~notify[calls[c].listener].permit
                => /\ calls'[c].pc = "waiting"
                   /\ c \in Range(notify'[calls[c].listener].waiters)
                   /\ hostState' = hostState]_vars

\* An accept call has been woken from its wait and the queue of its address
\* is empty: another call took the attempt.
C17_Witness ==
    \E c \in DOMAIN calls, d \in DOMAIN calls :
        /\ calls[c].pc = "check"
        /\ calls[c].woken = "yes"
        /\ CallQueue(c) = <<>>
        /\ calls[d].listener = calls[c].listener
        /\ calls[d].host = calls[c].host
        /\ Done(d)

\* C18: an accept call that has looked at the queue without returning looks
\* at it again only after it has consumed a notification of the wake-handle.
C18_NoBusyPolling ==
    [][\A c \in 1..MaxCalls : AcceptClosure(c) => calls[c].woken # "no"]_vars

\* An accept call that found nothing and suspended has been notified and is
\* about to look at the queue again, an attempt being queued for it.
C18_Witness ==
    \E c \in DOMAIN calls :
        /\ calls[c].pc = "check"
        /\ calls[c].woken = "yes"
        /\ running = NoCall
        /\ CallQueue(c) # <<>>

\* The host a listener was bound on.
BindingHost(l) == LocalAddr(l)[1]

\* Nothing but the tables of host h changes.
OnlyHostChanges(h) ==
    \A g \in Hosts \ {h} :
        binds'[g] = binds[g] /\ syns'[g] = syns[g] /\ streams'[g] = streams[g]

\* C19: bind, accept and drop change only the tables of the host the listener
\* was bound on, and a drop executed while another host is the current host
\* still removes the entry from the binding host.
C19_HostIsolation ==
    [][/\ \A h \in Hosts, addr \in ResolvedAddrs :
             Bind(h, addr) => OnlyHostChanges(h)
       /\ \A c \in 1..MaxCalls :
             AcceptClosure(c) => OnlyHostChanges(BindingHost(calls[c].listener))
       /\ \A l \in 1..MaxListeners, h \in Hosts :
             Drop(l, h) /\ worldActive
                 => /\ OnlyHostChanges(BindingHost(l))
                    /\ binds'[BindingHost(l)][LocalAddr(l)] = NoEntry]_vars

====
